---- MODULE Spec2Model ----
(***************************************************************************)
(* Model of curl/src/tool_main.c as patched for ios_system: the scp/sftp   *)
(* argument translator (scp_convert), the global constructor/destructor    *)
(* (main_init, main_free, free_config_fields) and the entry point          *)
(* (curl_main).                                                            *)
(*                                                                         *)
(* C strings are sequences of one-character strings; a program name        *)
(* ("curl", "scp", "sftp") is kept as one atomic element.  argv and argv2  *)
(* are functions over the C indices 0..n.  A char* that may be NULL is a   *)
(* sequence of length 0 (NULL) or 1 (the string pointed to).               *)
(***************************************************************************)
EXTENDS Integers, Sequences, FiniteSets, TLC

VARIABLES
  pc,               \* control position
  depth,            \* number of active curl_main frames (0, 1 or 2)
  argv,             \* the caller's argument vector (mutated by scp_convert)
  argvIn,           \* history: argv as passed by the caller
  i, argc2, argv2,  \* scp_convert locals
  localFileName, distantFileName,
  returnValue,      \* scp_convert's returnValue
  oob,              \* indices of argv2 written at or beyond its capacity
  calls,            \* history: nested curl_main calls made by scp_convert
  localOut,         \* history: argv2 index of the first token emitted for localFileName
  download,         \* history: localFileName was found after distantFileName
  localDir,         \* history: stat() said localFileName exists and is a directory
  remoteTok,        \* history: the argument last taken as the distant file, as passed
  classes,          \* history: per argument scanned, how it was taken and where its output starts
  global,           \* struct GlobalConfig global
  result,           \* curl_main's result
  events,           \* history: library and libc calls made, in order
  initStep,         \* history: "pending", "ok", or the init step that failed
  atFree,           \* history: global as main_free found it
  closed,           \* history: streams fclose()d
  opResult,         \* history: what operate() returned
  untouched,        \* history: operate() left global as main_init set it
  failCodes,        \* history: codes main_init returned, per failing step
  exitCode          \* value returned by the outermost curl_main

vars == <<pc, depth, argv, argvIn, i, argc2, argv2, localFileName,
          distantFileName, returnValue, oob, calls, localOut, download,
          localDir, remoteTok, classes, global, result, events, initStep, atFree, closed,
          opResult, untouched, failCodes, exitCode>>

scpVars == <<argv, i, argc2, argv2, localFileName, distantFileName,
             returnValue, oob, calls, localOut, download, localDir,
             remoteTok, classes>>

lifeVars == <<global, result, events, initStep, atFree, closed, opResult,
              untouched, failCodes>>

----------------------------------------------------------------------------
(* Bounds and inputs *)

MaxArgs == 3

Null == "NULL"
NullPtr == <<>>
Ptr(s) == <<s>>
Deref(p) == p[1]

CURLE_OK == 0
CURLE_FAILED_INIT == 2
UsageFailure == -1

\* codes curl_global_init / get_libcurl_info may fail with (CURLcode, nonzero)
EngineErrorCodes == {CURLE_FAILED_INIT, 27}
\* codes operate may return (CURLcode)
OperateResults == {CURLE_OK, 7}

InitSteps == {"b", "c", "d", "e"}

LegacyNames == {"scp", "sftp"}

Tokens ==
  { <<>>,
    <<".">>,
    <<"a">>,
    <<"d", "/">>,
    <<"-", "q">>,
    <<"-", ":">>,
    <<"h", ":", "/", "p", "/", "f">>,
    <<"h", ":", "/", "p", "/">> }

ArgLists == UNION { [1..n -> Tokens] : n \in 0..MaxArgs }

ArgvOf(name, toks) ==
  [k \in 0..Len(toks) |-> IF k = 0 THEN <<name>> ELSE toks[k]]

Inputs ==
  {ArgvOf("curl", <<>>)} \cup
  {ArgvOf(n, toks) : n \in LegacyNames, toks \in ArgLists}

\* argument vectors used when the host calls curl_main again and again
RunsInputs ==
  { ArgvOf("curl", <<>>),
    ArgvOf("scp", <<>>),
    ArgvOf("scp", << <<"a">>, <<"a">> >>),
    ArgvOf("sftp", << <<"h", ":", "/", "p", "/", "f">>, <<".">> >>) }

Argc(av) == Cardinality(DOMAIN av)

----------------------------------------------------------------------------
(* struct GlobalConfig, main_init, free_config_fields, main_free *)

ZeroGlobal ==
  [ showerror |-> 0, errors |-> Null, errors_fopened |-> FALSE,
    trace_stream |-> Null, trace_fopened |-> FALSE, trace_dump |-> Null,
    libcurl |-> Null, easy |-> Null, first |-> Null, last |-> Null ]

InitFailedCode_other == CURLE_FAILED_INIT + 25

\* the code main_init returns when the easy handle or the node is missing
InitFailedCode == CURLE_FAILED_INIT

\* main_init(config); fail names the step made to fail, code the CURLcode
\* the failing library call returns
main_init(config, fail, code) ==
  LET c0 == [config EXCEPT !.showerror = -1, !.errors = "stderr"]
      node == IF fail = "b" THEN Null ELSE "node"
      c1 == [c0 EXCEPT !.first = node, !.last = node]
  IN
  IF c1.first # Null THEN
    LET r1 == IF fail = "c" THEN code ELSE CURLE_OK IN
    IF r1 = CURLE_OK THEN
      LET r2 == IF fail = "d" THEN code ELSE CURLE_OK IN
      IF r2 = CURLE_OK THEN
        LET c2 == [c1 EXCEPT !.easy = IF fail = "e" THEN Null ELSE "easy"] IN
        IF c2.easy # Null THEN
          [ global |-> c2, result |-> r2,
            events |-> <<"malloc", "curl_global_init", "get_libcurl_info",
                         "curl_easy_init", "config_init">> ]
        ELSE
          [ global |-> c2, result |-> InitFailedCode,
            events |-> <<"malloc", "curl_global_init", "get_libcurl_info",
                         "curl_easy_init_fail", "helpf", "free_first">> ]
      ELSE
        [ global |-> c1, result |-> r2,
          events |-> <<"malloc", "curl_global_init", "get_libcurl_info_fail",
                       "helpf", "free_first">> ]
    ELSE
      [ global |-> c1, result |-> r1,
        events |-> <<"malloc", "curl_global_init_fail", "helpf",
                     "free_first">> ]
  ELSE
    [ global |-> c1, result |-> InitFailedCode,
      events |-> <<"malloc_fail", "helpf">> ]

ShouldClose_ignoreFlag(fopened, stream) == stream # Null

\* if(config->X_fopened && config->X) fclose(config->X);
ShouldClose(fopened, stream) == fopened /\ stream # Null

free_config_fields(config) ==
  LET ce == ShouldClose(config.errors_fopened, config.errors)
      ct == ShouldClose(config.trace_fopened, config.trace_stream)
  IN
  [ global |-> [config EXCEPT !.trace_dump = Null, !.errors = Null,
                              !.trace_stream = Null, !.libcurl = Null],
    events |-> (IF config.trace_dump # Null THEN <<"free_trace_dump">> ELSE <<>>)
               \o (IF ce THEN <<"fclose_errors">> ELSE <<>>)
               \o (IF ct THEN <<"fclose_trace">> ELSE <<>>)
               \o (IF config.libcurl # Null THEN <<"free_libcurl">> ELSE <<>>),
    closed |-> (IF ce THEN {config.errors} ELSE {})
               \cup (IF ct THEN {config.trace_stream} ELSE {}) ]

\* config_free(last): releases every node of the list and their fields
config_free(last) == IF last = Null THEN <<>> ELSE <<"free_node">>

MainFreeCleanups_swapped ==
  <<"curl_global_cleanup", "curl_easy_cleanup", "convert_cleanup",
    "metalink_cleanup">>

\* the library-level cleanups main_free makes before free_config_fields
MainFreeCleanups ==
  <<"curl_easy_cleanup", "curl_global_cleanup", "convert_cleanup",
    "metalink_cleanup">>

ClearNodes_firstOnly(config) == [config EXCEPT !.first = Null]

\* main_free's last two assignments
ClearNodes(config) == [config EXCEPT !.first = Null, !.last = Null]

main_free(config) ==
  LET c1 == [config EXCEPT !.easy = Null]
      f == free_config_fields(c1)
  IN
  [ global |-> ClearNodes(f.global),
    events |-> MainFreeCleanups \o f.events \o config_free(f.global.last),
    closed |-> f.closed ]

----------------------------------------------------------------------------
(* scp_convert helpers *)

Max(S) == CHOOSE x \in S : \A y \in S : y <= x
Min(S) == CHOOSE x \in S : \A y \in S : x <= y

\* strstr(s, c) for a one-character needle: index of the first match, 0 if none
StrStr(s, c) ==
  LET S == {k \in 1..Len(s) : s[k] = c} IN IF S = {} THEN 0 ELSE Min(S)

\* while ((position = strstr(distantFileName, "/")) != NULL) distantFileName = position + 1;
Basename(p) ==
  LET S == {k \in 1..Len(p) : p[k] = "/"} IN
  IF S = {} THEN p ELSE SubSeq(p, Max(S) + 1, Len(p))

\* capacity of argv2: malloc((argc + 2) * sizeof(char*))
Capacity(argc) == argc + 2

\* argv2[k] = v
Store(a, k, v) == [x \in DOMAIN a \cup {k} |-> IF x = k THEN v ELSE a[x]]

Overrun(idxs, argc) == {k \in idxs : k >= Capacity(argc)}

IsLegacy(name) == name = <<"scp">> \/ name = <<"sftp">>

\* (argv[i][0] == '-') || (distantFileName && localFileName)
IsFlag(t, dist, loc) ==
  (Len(t) > 0 /\ t[1] = "-") \/ (dist # NullPtr /\ loc # NullPtr)

FlagRewrite_verbatim(t) == t

\* scp -q (quiet) is equivalent to curl -s (silent)
FlagRewrite(t) == IF t = <<"-", "q">> THEN <<"-", "s">> ELSE t

\* asprintf(argv2 + argc2, "%s://%s/%s", protocol, argv[i], distantFileName)
RemoteURL(protocol, userHost, path) ==
  protocol \o <<":", "/", "/">> \o userHost \o <<"/">> \o path

\* argv[i][strlen(argv[i]) - 1] == '/'; for the empty string the byte read
\* lies before the string, and prevByteIsSlash says what it holds
EndsWithSlash(t, prevByteIsSlash) ==
  IF Len(t) > 0 THEN t[Len(t)] = "/" ELSE prevByteIsSlash

\* stat(localFileName) == 0 && S_ISDIR(st_mode); stat("") fails
StatIsDir(t, isDir) == Len(t) > 0 /\ isDir

\* the download branch: the tokens emitted for a local file name
DownloadTokens(t, base, prevByteIsSlash, isDir) ==
  IF t = <<".">> THEN << <<"-", "O">> >>
  ELSE IF EndsWithSlash(t, prevByteIsSlash) THEN << <<"-", "o">>, t \o base >>
  ELSE IF StatIsDir(t, isDir) THEN << <<"-", "o">>, t \o <<"/">> \o base >>
  ELSE << <<"-", "o">>, t >>

\* the upload branch
UploadTokens(t) == << <<"-", "T">>, t >>

BothFound_either(loc, dist) == loc # NullPtr \/ dist # NullPtr

\* !(localFileName && distantFileName) decides the usage message
BothFound(loc, dist) == loc # NullPtr /\ dist # NullPtr

\* argv2 with toks stored from index k on
StoreAll(a, k, toks) ==
  [x \in DOMAIN a \cup {k + j - 1 : j \in 1..Len(toks)} |->
     IF x >= k /\ x < k + Len(toks) THEN toks[x - k + 1] ELSE a[x]]

NullTok == <<"(null)">>

----------------------------------------------------------------------------
(* Initial state: curl_main is about to be called with argv *)

EmptyVec == [x \in {} |-> <<>>]

NoCodes == [s \in InitSteps |-> {}]

Fresh(av, codes) ==
  /\ pc = "entry"
  /\ depth = 1
  /\ argv = av
  /\ argvIn = av
  /\ i = 0
  /\ argc2 = 0
  /\ argv2 = EmptyVec
  /\ localFileName = NullPtr
  /\ distantFileName = NullPtr
  /\ returnValue = 0
  /\ oob = {}
  /\ calls = 0
  /\ localOut = 0
  /\ download = FALSE
  /\ localDir = FALSE
  /\ remoteTok = NullPtr
  /\ classes = <<>>
  /\ global = ZeroGlobal
  /\ result = CURLE_OK
  /\ events = <<>>
  /\ initStep = "pending"
  /\ atFree = ZeroGlobal
  /\ closed = {}
  /\ opResult = 0
  /\ untouched = FALSE
  /\ failCodes = codes
  /\ exitCode = 0

Init == \E av \in Inputs : Fresh(av, NoCodes)

InitRuns == \E av \in RunsInputs : Fresh(av, NoCodes)

----------------------------------------------------------------------------
(* curl_main *)

CanonicalName_legacy == <<"scp">>

\* argv2[0] = strdup("curl")
CanonicalName == <<"curl">>

\* argv[0] of the innermost active curl_main call
Argv0 == IF depth = 2 THEN argv2[0] ELSE argv[0]

\* curl_main, up to the call of main_init: a legacy name starts scp_convert
\* (its declarations and the for-initialisation), any other name the set-up
CurlMainEnter ==
  /\ pc = "entry"
  /\ IF IsLegacy(Argv0)
     THEN IF depth = 1
          THEN /\ pc' = "scan"
               /\ i' = 1
               /\ argc2' = 1
               /\ argv2' = Store(EmptyVec, 0, CanonicalName)
               /\ localFileName' = NullPtr
               /\ distantFileName' = NullPtr
               /\ UNCHANGED <<depth, argv, argvIn, returnValue, oob, calls,
                              localOut, download, localDir, remoteTok,
                              classes, exitCode>>
               /\ UNCHANGED lifeVars
          ELSE \* the translated list names a legacy program again
               /\ pc' = "reentry"
               /\ UNCHANGED <<depth, argvIn, exitCode>>
               /\ UNCHANGED scpVars
               /\ UNCHANGED lifeVars
     ELSE /\ pc' = "init"
          /\ global' = ZeroGlobal
          /\ result' = CURLE_OK
          /\ UNCHANGED <<depth, argvIn, exitCode, events, initStep, atFree,
                         closed, opResult, untouched, failCodes>>
          /\ UNCHANGED scpVars

AfterInit_always(res) == "operate"

\* where curl_main goes after main_init: if(!result) { operate ...; main_free }
AfterInit(res) == IF res = CURLE_OK THEN "operate" ELSE "ret"

\* result = main_init(&global);
MainInit ==
  /\ pc = "init"
  /\ \E fail \in InitSteps \cup {"none"}, code \in EngineErrorCodes :
       LET r == main_init(global, fail, code) IN
       /\ global' = r.global
       /\ result' = r.result
       /\ events' = events \o r.events
       /\ initStep' = IF fail = "none" THEN "ok" ELSE fail
       /\ failCodes' = IF fail = "none" THEN failCodes
                       ELSE [failCodes EXCEPT ![fail] = @ \cup {r.result}]
       /\ pc' = AfterInit(r.result)
  /\ UNCHANGED <<depth, argvIn, exitCode, atFree, closed, opResult, untouched>>
  /\ UNCHANGED scpVars

ErrStreams == {"stderr", "errfile", Null}
TraceStreams == {"tracefile", Null}

\* what operate may leave in the stream fields.  The --stderr, --trace and
\* --libcurl options decide it: a direct call may carry any of them, the
\* argument lists scp_convert builds from Tokens carry none.
StreamSettings(d) ==
  IF d = 1
  THEN [errors : ErrStreams, errors_fopened : BOOLEAN,
        trace_stream : TraceStreams, trace_fopened : BOOLEAN]
  ELSE {[errors |-> "stderr", errors_fopened |-> FALSE,
         trace_stream |-> Null, trace_fopened |-> FALSE]}

AfterOperate_skipfree == "ret"

\* where curl_main goes after operate
AfterOperate == "free"

\* result = operate(&global, argc, argv); operate may redirect the error
\* and trace streams and names a trace dump and a libcurl source file
Operate ==
  /\ pc = "operate"
  /\ \E res \in OperateResults, st \in StreamSettings(depth) :
       /\ global' = [global EXCEPT !.errors = st.errors,
                                   !.errors_fopened = st.errors_fopened,
                                   !.trace_stream = st.trace_stream,
                                   !.trace_fopened = st.trace_fopened,
                                   !.trace_dump = IF st.trace_fopened THEN "str" ELSE Null,
                                   !.libcurl = IF st.trace_fopened THEN "str" ELSE Null]
       /\ untouched' = (global' = global)
       /\ result' = res
       /\ opResult' = res
  /\ events' = Append(events, "operate")
  /\ pc' = AfterOperate
  /\ UNCHANGED <<depth, argvIn, exitCode, initStep, atFree, closed, failCodes>>
  /\ UNCHANGED scpVars

\* main_free(&global);
MainFree ==
  /\ pc = "free"
  /\ LET r == main_free(global) IN
       /\ global' = r.global
       /\ events' = events \o r.events
       /\ closed' = closed \cup r.closed
  /\ atFree' = global
  /\ pc' = "ret"
  /\ UNCHANGED <<depth, argvIn, exitCode, result, initStep, opResult,
                 untouched, failCodes>>
  /\ UNCHANGED scpVars

\* return (int)result;
CurlMainReturn ==
  /\ pc = "ret"
  /\ IF depth = 2
     THEN /\ returnValue' = result
          /\ depth' = 1
          /\ pc' = "scpfree"
          /\ UNCHANGED exitCode
     ELSE /\ exitCode' = result
          /\ depth' = 0
          /\ pc' = "done"
          /\ UNCHANGED returnValue
  /\ UNCHANGED <<argv, argvIn, i, argc2, argv2, localFileName,
                 distantFileName, oob, calls, localOut, download, localDir,
                 remoteTok, classes>>
  /\ UNCHANGED lifeVars

----------------------------------------------------------------------------
(* scp_convert *)

\* one iteration of the for loop
ScpScan ==
  /\ pc = "scan"
  /\ i < Argc(argv)
  /\ LET t == argv[i]
         protocol == argv[0]
     IN
     IF IsFlag(t, distantFileName, localFileName) THEN
       /\ argv2' = Store(argv2, argc2, FlagRewrite(t))
       /\ oob' = oob \cup Overrun({argc2}, Argc(argv))
       /\ argc2' = argc2 + 1
       /\ classes' = Append(classes, [class |-> "flag", out |-> argc2])
       /\ UNCHANGED <<argv, localFileName, distantFileName, localOut,
                      download, localDir, remoteTok>>
     ELSE IF StrStr(t, ":") # 0 THEN
       LET pos == StrStr(t, ":")
           userHost == SubSeq(t, 1, pos - 1)
           path == SubSeq(t, pos + 1, Len(t))
       IN
       /\ argv' = [argv EXCEPT ![i] = userHost]
       /\ argv2' = Store(argv2, argc2, RemoteURL(protocol, userHost, path))
       /\ oob' = oob \cup Overrun({argc2}, Argc(argv))
       /\ distantFileName' = Ptr(Basename(path))
       /\ remoteTok' = Ptr(t)
       /\ argc2' = argc2 + 1
       /\ classes' = Append(classes, [class |-> "remote", out |-> argc2])
       /\ UNCHANGED <<localFileName, localOut, download, localDir>>
     ELSE
       \E prevByteIsSlash \in BOOLEAN, isDir \in BOOLEAN :
         LET toks == IF distantFileName = NullPtr
                     THEN UploadTokens(t)
                     ELSE DownloadTokens(t, Deref(distantFileName),
                                         prevByteIsSlash, isDir)
         IN
         /\ localFileName' = Ptr(t)
         /\ argv2' = StoreAll(argv2, argc2, toks)
         /\ oob' = oob \cup Overrun(argc2..(argc2 + Len(toks) - 1), Argc(argv))
         /\ argc2' = argc2 + Len(toks)
         /\ localOut' = argc2
         /\ classes' = Append(classes, [class |-> "local", out |-> argc2])
         /\ download' = (distantFileName # NullPtr)
         /\ localDir' = (distantFileName # NullPtr /\ t # <<".">>
                         /\ StatIsDir(t, isDir))
         /\ UNCHANGED <<argv, distantFileName, remoteTok>>
  /\ i' = i + 1
  /\ UNCHANGED <<pc, depth, argvIn, returnValue, calls, exitCode>>
  /\ UNCHANGED lifeVars

\* argv2[argc2] = NULL; int returnValue = -1;
ScpTerminate ==
  /\ pc = "scan"
  /\ i >= Argc(argv)
  /\ argv2' = Store(argv2, argc2, NullTok)
  /\ oob' = oob \cup Overrun({argc2}, Argc(argv))
  /\ returnValue' = UsageFailure
  /\ pc' = "check"
  /\ UNCHANGED <<depth, argv, argvIn, i, argc2, localFileName,
                 distantFileName, calls, localOut, download, localDir,
                 remoteTok, classes, exitCode>>
  /\ UNCHANGED lifeVars

\* the usage message, when a file name is missing
ScpUsage ==
  /\ pc = "check"
  /\ ~BothFound(localFileName, distantFileName)
  /\ events' = Append(events, "usage")
  /\ pc' = "scpfree"
  /\ UNCHANGED <<depth, argvIn, exitCode, global, result, initStep, atFree,
                 closed, opResult, untouched, failCodes>>
  /\ UNCHANGED scpVars

\* returnValue = curl_main(argc2, argv2);
ScpDispatch ==
  /\ pc = "check"
  /\ BothFound(localFileName, distantFileName)
  /\ calls' = calls + 1
  /\ depth' = 2
  /\ pc' = "entry"
  /\ UNCHANGED <<argv, argvIn, i, argc2, argv2, localFileName,
                 distantFileName, returnValue, oob, localOut, download,
                 localDir, remoteTok, classes, exitCode>>
  /\ UNCHANGED lifeVars

\* for (...) free(argv2[i]); free(argv2); return returnValue;
ScpFree ==
  /\ pc = "scpfree"
  /\ events' = Append(events, "free_argv2")
  /\ exitCode' = returnValue
  /\ depth' = 0
  /\ pc' = "done"
  /\ UNCHANGED <<argvIn, global, result, initStep, atFree, closed, opResult,
                 untouched, failCodes>>
  /\ UNCHANGED scpVars

\* a write beyond argv2's capacity corrupts the heap: the process may be
\* aborted by the allocator at any later point, or run on
HeapAbort ==
  /\ oob # {}
  /\ pc \notin {"done", "crashed", "reentry"}
  /\ pc' = "crashed"
  /\ UNCHANGED <<depth, argvIn, exitCode>>
  /\ UNCHANGED scpVars
  /\ UNCHANGED lifeVars

\* the host calls curl_main again in the same process
Reinvoke ==
  /\ pc = "done"
  /\ \E av \in RunsInputs :
       /\ pc' = "entry" /\ depth' = 1 /\ argv' = av /\ argvIn' = av
       /\ i' = 0 /\ argc2' = 0 /\ argv2' = EmptyVec
       /\ localFileName' = NullPtr /\ distantFileName' = NullPtr
       /\ returnValue' = 0 /\ oob' = {} /\ calls' = 0 /\ localOut' = 0
       /\ download' = FALSE /\ localDir' = FALSE /\ remoteTok' = NullPtr /\ classes' = <<>>
       /\ global' = ZeroGlobal
       /\ result' = CURLE_OK /\ events' = <<>> /\ initStep' = "pending"
       /\ atFree' = ZeroGlobal /\ closed' = {} /\ opResult' = 0
       /\ untouched' = FALSE /\ exitCode' = 0
  /\ UNCHANGED failCodes

Next ==
  \/ CurlMainEnter
  \/ MainInit
  \/ Operate
  \/ MainFree
  \/ CurlMainReturn
  \/ ScpScan
  \/ ScpTerminate
  \/ ScpUsage
  \/ ScpDispatch
  \/ ScpFree
  \/ HeapAbort

NextRuns == Next \/ Reinvoke

Spec == Init /\ [][Next]_vars

SpecRuns == InitRuns /\ [][NextRuns]_vars

----------------------------------------------------------------------------
(* Reading the history *)

Count(ev, e) == Cardinality({k \in 1..Len(ev) : ev[k] = e})
Has(ev, e) == \E k \in 1..Len(ev) : ev[k] = e
\* index of the first occurrence of e in ev, 0 if there is none
Pos(ev, e) == LET S == {k \in 1..Len(ev) : ev[k] = e} IN IF S = {} THEN 0 ELSE Min(S)

Resources == {"node", "engine", "handle"}

AcquireEvent(r) ==
  CASE r = "node" -> "malloc"
    [] r = "engine" -> "curl_global_init"
    [] r = "handle" -> "curl_easy_init"

ReleaseEvents(r) ==
  CASE r = "node" -> {"free_first", "free_node"}
    [] r = "engine" -> {"curl_global_cleanup"}
    [] r = "handle" -> {"curl_easy_cleanup"}

NAcquired(r) == Count(events, AcquireEvent(r))
NReleased(r) == Cardinality({k \in 1..Len(events) : events[k] \in ReleaseEvents(r)})

\* the resources init has acquired strictly before each step
AcquiredBefore(step) ==
  CASE step = "b" -> {}
    [] step = "c" -> {"node"}
    [] step = "d" -> {"node", "engine"}
    [] step = "e" -> {"node", "engine"}

\* calls only main_free makes
TeardownEvents ==
  {"curl_easy_cleanup", "curl_global_cleanup", "convert_cleanup",
   "metalink_cleanup", "free_node"}

InitFailed == initStep \in InitSteps
\* main_free has run to its end (it has recorded the global it was given)
TornDown == atFree # ZeroGlobal
\* the curl_main call that ran main_init has returned
MainReturned == pc \in {"scpfree", "done"}
\* what that call returned
MainValue == IF pc = "done" THEN exitCode ELSE returnValue

----------------------------------------------------------------------------
(* The claims *)

\* C1: after main_init has failed at step (b), (c), (d) or (e), the
\* resources released are exactly those acquired before the failing step:
\* none of them is still held and none was released twice.
C1_FailedInitReleasesAcquired ==
  InitFailed =>
    /\ {r \in Resources : NReleased(r) > 0} = AcquiredBefore(initStep)
    /\ \A r \in Resources : NReleased(r) = NAcquired(r) /\ NReleased(r) <= 1

\* C2: when init succeeded, main_free is called exactly once, after operate
\* has returned, whatever operate returned, and curl_main returns operate's
\* result code.
C2_TeardownOnceAfterOperate ==
  /\ Count(events, "curl_easy_cleanup") <= 1
  /\ Has(events, "curl_easy_cleanup") =>
       /\ Has(events, "operate")
       /\ Pos(events, "operate") < Pos(events, "curl_easy_cleanup")
  /\ (initStep = "ok" /\ MainReturned) =>
       /\ Count(events, "curl_easy_cleanup") = 1
       /\ Count(events, "operate") = 1
       /\ opResult \in OperateResults
       /\ MainValue = opResult

C2_Witness ==
  /\ pc = "done" /\ initStep = "ok" /\ opResult # CURLE_OK
  /\ exitCode = opResult /\ Count(events, "curl_easy_cleanup") = 1

\* C3: when init failed, operate and main_free are never called and
\* curl_main returns the nonzero code main_init produced.
C3_FailedInitSkipsOperate ==
  InitFailed =>
    /\ ~Has(events, "operate")
    /\ \A e \in TeardownEvents : ~Has(events, e)
    /\ pc \notin {"operate", "free"}
    /\ MainReturned => MainValue # CURLE_OK /\ failCodes[initStep] = {MainValue}

C3_Witness ==
  pc = "done" /\ initStep = "d" /\ exitCode = 27 /\ ~Has(events, "operate")

\* C4: after a successful init and teardown, the node, the Engine and the
\* handle have each been released exactly once, in the reverse of the order
\* they were acquired in: handle, then Engine, then node.
C4_ReverseOrderRelease ==
  TornDown =>
    /\ \A r \in Resources : NAcquired(r) = 1 /\ NReleased(r) = 1
    /\ Pos(events, "malloc") < Pos(events, "curl_global_init")
    /\ Pos(events, "curl_global_init") < Pos(events, "curl_easy_init")
    /\ Pos(events, "curl_easy_init") < Pos(events, "curl_easy_cleanup")
    /\ Pos(events, "curl_easy_cleanup") < Pos(events, "curl_global_cleanup")
    /\ Pos(events, "curl_global_cleanup") < Pos(events, "free_node")

C4_Witness ==
  pc = "done" /\ initStep = "ok" /\ Has(events, "free_node")

\* C5: once init or teardown has returned, the global holds the handle and
\* the node references together or not at all.
C5_HandleIffNode ==
  initStep # "pending" =>
    /\ (global.easy # Null) <=> (global.first # Null)
    /\ (global.easy # Null) <=> (global.last # Null)
\* the fields of the global that hold a resource
ResourceFields ==
  {"easy", "first", "last", "errors", "trace_stream", "trace_dump", "libcurl"}

\* C6, as stated: after init and teardown with nothing done in between,
\* every field init wrote is back at its zero value.
C6_AllFieldsZero ==
  (TornDown /\ untouched) => global = ZeroGlobal

\* C6, amended: after init and teardown with nothing done in between, every
\* resource field (handle, first/last node, error stream, trace stream, trace
\* dump name, libcurl source name) is back at its zero value and the
\* ownership flags are clear; showerror keeps the -1 init gave it.
C6_ResourceFieldsZero ==
  (TornDown /\ untouched) =>
    /\ \A f \in ResourceFields : global[f] = ZeroGlobal[f]
    /\ ~global.errors_fopened /\ ~global.trace_fopened
    /\ global.showerror = -1

C6_Witness ==
  pc = "done" /\ initStep = "ok" /\ untouched /\ atFree.first = "node"

\* C7: teardown closes the error stream, and the trace stream, exactly when
\* that stream's ownership flag is set and the stream is present; a stream
\* that is not owned, the default error stream included, is never closed.
C7_CloseIffOwned ==
  /\ ~TornDown => closed = {}
  /\ TornDown =>
       /\ Has(events, "fclose_errors")
            <=> (atFree.errors_fopened /\ atFree.errors # Null)
       /\ Has(events, "fclose_trace")
            <=> (atFree.trace_fopened /\ atFree.trace_stream # Null)
       /\ \A st \in closed :
            /\ st # Null
            /\ \/ (st = atFree.errors /\ atFree.errors_fopened)
               \/ (st = atFree.trace_stream /\ atFree.trace_fopened)
       /\ (atFree.errors_fopened /\ atFree.errors # Null)
            => atFree.errors \in closed
       /\ (atFree.trace_fopened /\ atFree.trace_stream # Null)
            => atFree.trace_stream \in closed

C7_Witness ==
  /\ pc = "done" /\ initStep = "ok"
  /\ atFree.errors = "stderr" /\ ~atFree.errors_fopened
  /\ atFree.trace_stream = "tracefile" /\ atFree.trace_fopened
  /\ closed = {"tracefile"}

\* C8, as stated: the codes init returns for failures at (b), (c), (d) and
\* (e) are pairwise distinct.
C8_DistinctCodes ==
  \A s \in InitSteps : \A t \in InitSteps :
    s # t => failCodes[s] \cap failCodes[t] = {}

\* C8, amended: each init failure makes init return a nonzero code, but the
\* codes are not distinct: failures at (b) and (e) both return
\* CURLE_FAILED_INIT, failures at (c) and (d) return the nonzero code the
\* failing library call returned, which may be CURLE_FAILED_INIT as well.
C8_FatalCodes ==
  /\ \A s \in InitSteps : CURLE_OK \notin failCodes[s]
  /\ failCodes["b"] \subseteq {CURLE_FAILED_INIT}
  /\ failCodes["e"] \subseteq {CURLE_FAILED_INIT}
  /\ failCodes["c"] \subseteq EngineErrorCodes
  /\ failCodes["d"] \subseteq EngineErrorCodes
  /\ (InitFailed /\ pc = "ret") => result \in failCodes[initStep]

C8_Witness ==
  /\ failCodes["b"] = {CURLE_FAILED_INIT}
  /\ failCodes["e"] = {CURLE_FAILED_INIT}
  /\ failCodes["c"] = EngineErrorCodes
  /\ failCodes["d"] = EngineErrorCodes

NonDash(t) == ~(Len(t) > 0 /\ t[1] = "-")
HasColon(t) == \E k \in 1..Len(t) : t[k] = ":"
\* the invocation names a local file, respectively a distant file
InLocal == \E k \in DOMAIN argvIn \ {0} : NonDash(argvIn[k]) /\ ~HasColon(argvIn[k])
InRemote == \E k \in DOMAIN argvIn \ {0} : NonDash(argvIn[k]) /\ HasColon(argvIn[k])

\* C9: a legacy invocation that lacks a local or a distant file name makes
\* the translator return -1, which no library code equals, without calling
\* curl_main: no init, operation or teardown happens; when both names were
\* found curl_main is called exactly once and its result is returned.
C9_UsageFailure ==
  (pc = "done" /\ IsLegacy(argvIn[0])) =>
    IF InLocal /\ InRemote
    THEN /\ calls = 1
         /\ exitCode = result
         /\ exitCode # UsageFailure
         /\ initStep # "pending"
    ELSE /\ exitCode = UsageFailure
         /\ calls = 0
         /\ initStep = "pending"
         /\ events = <<"usage", "free_argv2">>

C9_Witness ==
  /\ pc = "done" /\ exitCode = UsageFailure /\ calls = 0
  /\ Argc(argvIn) = 3 /\ remoteTok # NullPtr

RECURSIVE AfterFirst(_, _)
\* what follows the first c in s; empty when s holds no c
AfterFirst(s, c) ==
  IF s = <<>> THEN <<>>
  ELSE IF Head(s) = c THEN Tail(s) ELSE AfterFirst(Tail(s), c)

RECURSIVE AfterLast(_, _)
\* what follows the last c in s; s itself when s holds no c
AfterLast(s, c) ==
  IF \E k \in 1..Len(s) : s[k] = c THEN AfterLast(AfterFirst(s, c), c) ELSE s

\* C10: in a download, a local path "." gives "-O" and neither "-o" nor
\* "-T"; any other local path gives "-o" followed by the output path: local
\* path + remote basename when the local path ends with '/', local path +
\* "/" + remote basename when it is an existing directory, else the local
\* path itself; the remote basename is what follows the last '/' of the
\* remote path.
C10_DownloadOutput ==
  download =>
    LET L == Deref(localFileName)
        base == AfterLast(AfterFirst(Deref(remoteTok), ":"), "/")
        out == IF Len(L) > 0 /\ L[Len(L)] = "/" THEN L \o base
               ELSE IF localDir THEN L \o <<"/">> \o base
               ELSE L
    IN
    IF L = <<".">>
    THEN /\ argv2[localOut] = <<"-", "O">>
         /\ \A k \in DOMAIN argv2 :
              argv2[k] # <<"-", "o">> /\ argv2[k] # <<"-", "T">>
    ELSE /\ argv2[localOut] = <<"-", "o">>
         /\ argv2[localOut + 1] = out
RECURSIVE BeforeFirst(_, _)
\* what precedes the first c in s; s itself when s holds no c
BeforeFirst(s, c) ==
  IF s = <<>> THEN <<>>
  ELSE IF Head(s) = c THEN <<>> ELSE <<Head(s)>> \o BeforeFirst(Tail(s), c)

\* the remote path of the argument taken as the distant file
RemotePath == AfterFirst(Deref(remoteTok), ":")
\* an upload: the local name was found before the distant one
Upload == localFileName # NullPtr /\ remoteTok # NullPtr /\ ~download

\* C11: in an upload whose remote path ends with '/', the output holds "-T"
\* followed by the local path as given, and the URL is
\* <alias>://<userHost>/<remotePath> with the local file's name appended.
C11_UploadURL ==
  (Upload /\ Len(RemotePath) > 0 /\ RemotePath[Len(RemotePath)] = "/") =>
    LET L == Deref(localFileName)
        userHost == BeforeFirst(Deref(remoteTok), ":")
        url == argvIn[0] \o <<":", "/", "/">> \o userHost \o <<"/">>
               \o RemotePath \o AfterLast(L, "/")
    IN
    /\ argv2[localOut] = <<"-", "T">>
    /\ argv2[localOut + 1] = L
    /\ \E k \in DOMAIN argv2 : argv2[k] = url

\* C12: once the translator has returned (with the nested call's result or
\* with UsageFailure), every argument it was given holds what it held at the
\* call, the one split at ':' included.
C12_InputUnchanged ==
  pc = "done" => argv = argvIn

NClass(c) == Cardinality({k \in 1..Len(classes) : classes[k].class = c})

\* C13: in a translated invocation exactly one argument is taken as the
\* distant file and exactly one as the local file: no second "-T"/"-o" and
\* no second URL is emitted.
C13_OneLocalOneRemote ==
  calls > 0 => NClass("local") = 1 /\ NClass("remote") = 1
\* the calls into libcurl made by main_init, curl_main and main_free
EngineUses ==
  {"get_libcurl_info", "get_libcurl_info_fail", "curl_easy_init",
   "curl_easy_init_fail", "operate", "curl_easy_cleanup"}

\* C14: every use of the Engine (info query, handle acquisition, the
\* operation, handle release) comes after a successful global initialization
\* and before the global cleanup; none follows a failed global
\* initialization or the global cleanup.
C14_EngineUseInsideGlobal ==
  \A k \in 1..Len(events) :
    events[k] \in EngineUses =>
      /\ \E j \in 1..(k - 1) : events[j] = "curl_global_init"
      /\ \A j \in 1..(k - 1) :
           events[j] \notin {"curl_global_init_fail", "curl_global_cleanup"}

C14_Witness ==
  /\ pc = "done"
  /\ Has(events, "operate")
  /\ Has(events, "curl_easy_cleanup")
  /\ Has(events, "curl_global_cleanup")
\* whether an argument before the k-th was classified as c
ClassBefore(k, c) == \E j \in 1..(k - 1) : classes[j].class = c

\* C15: an argument is treated as a flag exactly when it starts with '-' or
\* when a local path and a remote endpoint are both already set; a flag
\* yields exactly one output token, in input order, equal to "-s" for "-q"
\* and to the argument itself otherwise.
C15_FlagPassThrough ==
  \A k \in 1..Len(classes) :
    LET t == argvIn[k]
        out == classes[k].out
        nextOut == IF k < Len(classes) THEN classes[k + 1].out ELSE argc2
    IN
    /\ classes[k].class = "flag" <=>
         \/ Len(t) > 0 /\ t[1] = "-"
         \/ ClassBefore(k, "local") /\ ClassBefore(k, "remote")
    /\ classes[k].class = "flag" =>
         /\ argv2[out] = (IF t = <<"-", "q">> THEN <<"-", "s">> ELSE t)
         /\ nextOut = out + 1
         /\ k > 1 => classes[k - 1].out < out

\* a positional argument after both endpoints was passed through, and the
\* translated list went to the nested call
C15_Witness ==
  /\ pc = "done"
  /\ calls = 1
  /\ \E k \in 1..Len(classes) :
       /\ classes[k].class = "flag"
       /\ argvIn[k] # <<>> /\ argvIn[k][1] # "-"
       /\ argv2[classes[k].out] = argvIn[k]

StreamCloses == {"fclose_errors", "fclose_trace"}

\* C16: in teardown the trace stream is closed (if owned) before the error
\* stream, and both closes come after the handle, Engine and helper cleanups
\* and before the OperationConfig nodes are released.
C16_TraceBeforeErrors ==
  TornDown =>
    /\ (Has(events, "fclose_trace") /\ Has(events, "fclose_errors")) =>
         Pos(events, "fclose_trace") < Pos(events, "fclose_errors")
    /\ \A c \in StreamCloses :
         Has(events, c) =>
           /\ Count(events, c) = 1
           /\ Pos(events, "curl_easy_cleanup") < Pos(events, c)
           /\ Pos(events, "curl_global_cleanup") < Pos(events, c)
           /\ Pos(events, "convert_cleanup") < Pos(events, c)
           /\ Pos(events, "metalink_cleanup") < Pos(events, c)
           /\ Pos(events, c) < Pos(events, "free_node")
\* C17: a legacy invocation with more than one non-flag argument holding
\* ':' is rejected: the translator returns UsageFailure and curl_main is not
\* called for it.
C17_SecondRemoteRejected ==
  NClass("remote") >= 2 =>
    /\ calls = 0
    /\ pc = "done" => exitCode = UsageFailure

\* C18: every index written into argv2, the terminating NULL's included, is
\* below the allocated capacity argc + 2.
C18_WritesInsideBuffer ==
  oob = {}
\* C19: the translated list starts with "curl", which is no legacy name, so
\* the nested curl_main never starts the translator again (one nested call
\* at most), and the list is released once, after the nested call has
\* returned, on the dispatch path and on the usage path alike.
C19_ReentryDepthOne ==
  /\ pc # "reentry"
  /\ depth \in 0..2
  /\ calls <= 1
  /\ 0 \in DOMAIN argv2 =>
       argv2[0] = <<"curl">> /\ ~IsLegacy(argv2[0])
  /\ depth = 2 => ~Has(events, "free_argv2")
  /\ Has(events, "free_argv2") =>
       /\ Count(events, "free_argv2") = 1
       /\ events[Len(events)] = "free_argv2"
       /\ pc = "done"
  /\ (pc = "done" /\ IsLegacy(argvIn[0])) => Has(events, "free_argv2")

\* the nested call ran an operation and returned before the list was freed
C19_Witness ==
  /\ pc = "done"
  /\ calls = 1
  /\ Has(events, "operate")
  /\ Pos(events, "free_node") < Pos(events, "free_argv2")
  /\ events[Len(events)] = "free_argv2"

====
